---- MODULE Spec2Model ----
(***************************************************************************)
(* Model of the metadata registry of the app distribution server          *)
(* (src/main.go, second revision, lines 338-879): the in-memory tree       *)
(* allProjects, the mutex protecting it, the metadata.json / .bak save     *)
(* protocol, and the upload / delete / read handlers that use them.        *)
(***************************************************************************)
EXTENDS Integers, Sequences, FiniteSets, TLC

\* ---------------------------------------------------------------- bounds
MaxRequests == 2   \* requests received over a run
MaxTime    == 1    \* time.Now().Unix() ranges over 0..MaxTime
MaxFaults  == 1    \* file-system calls that return an error over a run
MaxCrashes == 1    \* process interruptions over a run

Procs == {1, 2}     \* request goroutines that may run concurrently

\* ---------------------------------------------------------------- inputs
\* the code never looks inside a name, so request number n draws its names
\* from the first n of each list; c.PostForm returns the bytes the client
\* sent, so a project name may hold a byte (written <FF>) that is not UTF-8
ProjectNames == <<"Demo", "Other<FF>">>
PackageNames == <<"com.a", "com.b">>
AppNames     == <<"App", "App2">>
Versions     == {"1.0"}
Channels     == {"beta"}
Passwords    == {"9527", "wrong"}

deletePassword == "9527"

\* content of a path: absent, a strict prefix of a document, or a document
NoFile    == [kind |-> "absent", doc |-> << >>]
Truncated == [kind |-> "truncated", doc |-> << >>]
Document(d) == [kind |-> "json", doc |-> d]
NoIcon    == << >>         \* the empty icon path ""

VARIABLES
  allProjects,  \* []Project held in memory
  mutex,        \* 0 when free, else the goroutine holding it
  file,         \* content of metadata.json
  bak,          \* content of metadata.json.bak
  uploads,      \* names of the artifact files under uploads/
  temps,        \* goroutines whose temp-<nano>-<name> file exists
  icons,        \* package names whose static/icons/<pkg>.png exists
  pc,           \* position of each request goroutine
  req,          \* the locals of the handler each goroutine is running
  resp,         \* the latest response written: handler and HTTP status
  err,          \* result of saveMetadata seen by each goroutine
  now,          \* the wall clock in seconds
  phase,        \* "running", or "panicked" when main's loadMetadata failed
  backedUp,     \* the running saveMetadata renamed the file to the backup
  lastSaveErr,  \* the latest saveMetadata since start returned an error
  nReqs, nFaults, nCrashes

vars == <<allProjects, mutex, file, bak, uploads, temps, icons, pc, req,
          resp, err, now, phase, backedUp, lastSaveErr,
          nReqs, nFaults, nCrashes>>

\* ------------------------------------------------------- sequence helpers
Indices(s) == 1..Len(s)

Min(S) == CHOOSE x \in S : \A y \in S : x <= y

\* index of the first element satisfying the test, 0 when there is none
FirstIndex(s, Test(_)) ==
  LET hits == {i \in Indices(s) : Test(s[i])}
  IN IF hits = {} THEN 0 ELSE Min(hits)

Filter(s, Test(_)) == SelectSeq(s, Test)

\* every AppEntry of the registry, in project order
RECURSIVE AllApps(_)
AllApps(projs) ==
  IF projs = << >> THEN << >> ELSE Head(projs).Apps \o AllApps(Tail(projs))

RECURSIVE AllBuilds(_)
AllBuilds(apps) ==
  IF apps = << >> THEN << >> ELSE Head(apps).Builds \o AllBuilds(Tail(apps))

FileNamesOf(builds) == {builds[i].FileName : i \in Indices(builds)}

\* ------------------------------------------------------------ JSON codec
\* json.MarshalIndent: every struct becomes an object, a sequence of
\* <<key, value>> members in field order; every slice becomes an array;
\* every string is coerced to valid UTF-8, each invalid byte replaced by
\* U+FFFD (written <FFFD>).  File names, URLs and icon paths are tuples of
\* strings that are valid here and are written as they are.
ToValidUTF8(str) == IF str = "Other<FF>" THEN "Other<FFFD>" ELSE str

MarshalBuild(b) ==
  << <<"version", ToValidUTF8(b.Version)>>,
     <<"channel", ToValidUTF8(b.Channel)>>,
     <<"releaseNotes", ToValidUTF8(b.ReleaseNotes)>>,
     <<"fileName", b.FileName>>,
     <<"fileSize", b.FileSize>>, <<"uploadTime", b.UploadTime>>,
     <<"downloadURL", b.DownloadURL>> >>

MarshalApp(a) ==
  << <<"appName", ToValidUTF8(a.AppName)>>,
     <<"packageName", ToValidUTF8(a.PackageName)>>,
     <<"iconPath", a.IconPath>>,
     <<"builds", [i \in Indices(a.Builds) |-> MarshalBuild(a.Builds[i])]>> >>

MarshalProject(p) ==
  << <<"projectName", ToValidUTF8(p.ProjectName)>>,
     <<"apps", [i \in Indices(p.Apps) |-> MarshalApp(p.Apps[i])]>> >>

Marshal(projs) == [i \in Indices(projs) |-> MarshalProject(projs[i])]

\* the value of the member with the given key
Member(obj, key) == obj[CHOOSE i \in Indices(obj) : obj[i][1] = key][2]

UnmarshalBuild(o) ==
  [Version |-> Member(o, "version"), Channel |-> Member(o, "channel"),
   ReleaseNotes |-> Member(o, "releaseNotes"), FileName |-> Member(o, "fileName"),
   FileSize |-> Member(o, "fileSize"), UploadTime |-> Member(o, "uploadTime"),
   DownloadURL |-> Member(o, "downloadURL")]

UnmarshalApp(o) ==
  [AppName |-> Member(o, "appName"), PackageName |-> Member(o, "packageName"),
   IconPath |-> Member(o, "iconPath"),
   Builds |-> LET bs == Member(o, "builds")
              IN [i \in Indices(bs) |-> UnmarshalBuild(bs[i])]]

UnmarshalProject(o) ==
  [ProjectName |-> Member(o, "projectName"),
   Apps |-> LET as == Member(o, "apps")
            IN [i \in Indices(as) |-> UnmarshalApp(as[i])]]

Unmarshal(doc) == [i \in Indices(doc) |-> UnmarshalProject(doc[i])]

\* json.Unmarshal reports a syntax error on any strict prefix of a document
Parses(content) == content.kind = "json"

\* ------------------------------------------------- registry, in memory
BuildsOf(projs, projectName, packageName) ==
  LET pi == FirstIndex(projs, LAMBDA p : p.ProjectName = projectName)
  IN IF pi = 0 THEN << >>
     ELSE LET ai == FirstIndex(projs[pi].Apps,
                               LAMBDA a : a.PackageName = packageName)
          IN IF ai = 0 THEN << >> ELSE projs[pi].Apps[ai].Builds

\* the AppEntry values updateMetadata's two lookups find: those with the
\* package name in the first project with the project name
AppsOf(projs, projectName, packageName) ==
  LET pi == FirstIndex(projs, LAMBDA p : p.ProjectName = projectName)
  IN IF pi = 0 THEN << >>
     ELSE SelectSeq(projs[pi].Apps, LAMBDA a : a.PackageName = packageName)

\* faulty variant: the project lookup never finds the project
UpsertProjectAlwaysAppends(projs, projectName) ==
  Append(projs, [ProjectName |-> projectName, Apps |-> << >>])

\* updateMetadata: the project lookup and the creation of a missing project
UpsertProject(projs, projectName) ==
  IF FirstIndex(projs, LAMBDA p : p.ProjectName = projectName) = 0
  THEN Append(projs, [ProjectName |-> projectName, Apps |-> << >>])
  ELSE projs

\* faulty variant: the new build goes to the end of the build list
UpsertAppAppendsBuild(apps, appInfo, newBuild) ==
  LET ai == FirstIndex(apps, LAMBDA a : a.PackageName = appInfo.PackageName)
  IN IF ai = 0
     THEN Append(apps, [AppName |-> appInfo.AppName,
                        PackageName |-> appInfo.PackageName,
                        IconPath |-> appInfo.IconPath,
                        Builds |-> <<newBuild>>])
     ELSE [apps EXCEPT ![ai] =
             [@ EXCEPT !.AppName = appInfo.AppName,
                       !.IconPath = IF appInfo.IconPath # NoIcon
                                    THEN appInfo.IconPath ELSE @,
                       !.Builds = Append(@, newBuild)]]

\* faulty variant: the icon path of a found AppEntry is always overwritten
UpsertAppOverwritesIcon(apps, appInfo, newBuild) ==
  LET ai == FirstIndex(apps, LAMBDA a : a.PackageName = appInfo.PackageName)
  IN IF ai = 0
     THEN Append(apps, [AppName |-> appInfo.AppName,
                        PackageName |-> appInfo.PackageName,
                        IconPath |-> appInfo.IconPath,
                        Builds |-> <<newBuild>>])
     ELSE [apps EXCEPT ![ai] =
             [@ EXCEPT !.AppName = appInfo.AppName,
                       !.IconPath = appInfo.IconPath,
                       !.Builds = <<newBuild>> \o @]]

\* updateMetadata: the app lookup, the creation of a missing AppEntry or the
\* refresh of a found one, and the prepend of the new build
UpsertApp(apps, appInfo, newBuild) ==
  LET ai == FirstIndex(apps, LAMBDA a : a.PackageName = appInfo.PackageName)
  IN IF ai = 0
     THEN Append(apps, [AppName |-> appInfo.AppName,
                        PackageName |-> appInfo.PackageName,
                        IconPath |-> appInfo.IconPath,
                        Builds |-> <<newBuild>>])
     ELSE [apps EXCEPT ![ai] =
             [@ EXCEPT !.AppName = appInfo.AppName,
                       !.IconPath = IF appInfo.IconPath # NoIcon
                                    THEN appInfo.IconPath ELSE @,
                       !.Builds = <<newBuild>> \o @]]

\* updateMetadata up to its call of saveMetadata
updateMetadata(projs, projectName, appInfo, newBuild) ==
  LET ps == UpsertProject(projs, projectName)
      pi == FirstIndex(ps, LAMBDA p : p.ProjectName = projectName)
  IN [ps EXCEPT ![pi].Apps = UpsertApp(@, appInfo, newBuild)]

\* position <<i, j>> of the first AppEntry with the package name, <<0, 0>>
\* when no project has one
FindApp(projs, packageName) ==
  LET pi == FirstIndex(projs, LAMBDA p :
              FirstIndex(p.Apps, LAMBDA a : a.PackageName = packageName) # 0)
  IN IF pi = 0 THEN <<0, 0>>
     ELSE <<pi, FirstIndex(projs[pi].Apps,
                           LAMBDA a : a.PackageName = packageName)>>

\* faulty variant: an app left without builds stays in its project
DeleteBuildKeepsEmptyApp(projs, packageName, fileName) ==
  LET at == FindApp(projs, packageName)
  IN IF at[1] = 0 THEN [projects |-> projs, buildFound |-> FALSE]
     ELSE
       LET builds    == projs[at[1]].Apps[at[2]].Builds
           newBuilds == Filter(builds, LAMBDA b : b.FileName # fileName)
       IN [projects |-> [projs EXCEPT ![at[1]].Apps[at[2]].Builds = newBuilds],
           buildFound |-> \E i \in Indices(builds) :
                            builds[i].FileName = fileName]

\* faulty variant: buildFound is set when the app is found, not when a build matches
DeleteBuildFoundOnApp(projs, packageName, fileName) ==
  LET at == FindApp(projs, packageName)
  IN IF at[1] = 0 THEN [projects |-> projs, buildFound |-> FALSE]
     ELSE
       LET builds    == projs[at[1]].Apps[at[2]].Builds
           newBuilds == Filter(builds, LAMBDA b : b.FileName # fileName)
           filtered  == [projs EXCEPT ![at[1]].Apps[at[2]].Builds = newBuilds]
       IN [projects |->
             IF newBuilds = << >>
             THEN [filtered EXCEPT ![at[1]].Apps =
                     Filter(@, LAMBDA a : a.PackageName # packageName)]
             ELSE filtered,
           buildFound |-> TRUE]

\* handleDeleteBuild between Lock and saveMetadata: the registry it leaves
\* and whether a build with the file name was found
DeleteBuild(projs, packageName, fileName) ==
  LET at == FindApp(projs, packageName)
  IN IF at[1] = 0 THEN [projects |-> projs, buildFound |-> FALSE]
     ELSE
       LET builds    == projs[at[1]].Apps[at[2]].Builds
           newBuilds == Filter(builds, LAMBDA b : b.FileName # fileName)
           found     == \E i \in Indices(builds) : builds[i].FileName = fileName
           filtered  == [projs EXCEPT ![at[1]].Apps[at[2]].Builds = newBuilds]
       IN [projects |->
             IF found /\ newBuilds = << >>
             THEN [filtered EXCEPT ![at[1]].Apps =
                     Filter(@, LAMBDA a : a.PackageName # packageName)]
             ELSE filtered,
           buildFound |-> found]

\* handleDeleteApp between Lock and saveMetadata
DeleteApp(projs, packageName) ==
  LET pi == FirstIndex(projs, LAMBDA p :
              \E j \in Indices(p.Apps) : p.Apps[j].PackageName = packageName)
  IN IF pi = 0
     THEN [projects |-> projs, appFound |-> FALSE, buildsToDelete |-> << >>]
     ELSE
       LET apps    == projs[pi].Apps
           hits    == {j \in Indices(apps) : apps[j].PackageName = packageName}
           lastHit == CHOOSE j \in hits : \A k \in hits : k <= j
           newApps == Filter(apps, LAMBDA a : a.PackageName # packageName)
           removed == [projs EXCEPT ![pi].Apps = newApps]
       IN [projects |->
             IF newApps = << >>
             THEN Filter(removed,
                         LAMBDA p : p.ProjectName # projs[pi].ProjectName)
             ELSE removed,
           appFound |-> TRUE,
           buildsToDelete |-> apps[lastHit].Builds]

\* the registry a loadMetadata produces from the given file content
Loaded(content) == IF content.kind = "absent" THEN << >> ELSE Unmarshal(content.doc)

\* ------------------------------------------------------------- requests
NoReq ==
  [op |-> "none", id |-> 0, projectName |-> "", packageName |-> "",
   appName |-> "", version |-> "", channel |-> "", password |-> "",
   fileName |-> << >>, iconPath |-> NoIcon, uploadTime |-> 0]

\* the names request number n may carry
Names(list, n) == {list[i] : i \in 1..(IF n < Len(list) THEN n ELSE Len(list))}

\* fmt.Sprintf("%s-%s-%s-%d.apk", packageName, version, channel, unix)
uniqueFilename(packageName, version, channel, unix) ==
  <<packageName, version, channel, unix>>

\* filepath.Join("static", "icons", packageName + ".png")
relativeIconPath(packageName) == <<"static/icons", packageName>>

FileSize     == 1024        \* file.Size of the uploaded artifact
ReleaseNotes == "notes"     \* the releaseNotes form field

AppInfoOf(r) ==
  [AppName |-> r.appName, PackageName |-> r.packageName,
   Version |-> r.version, IconPath |-> r.iconPath]

BuildInfoOf(r) ==
  [Version |-> r.version, Channel |-> r.channel, ReleaseNotes |-> ReleaseNotes,
   FileName |-> r.fileName, FileSize |-> FileSize, UploadTime |-> r.uploadTime,
   DownloadURL |-> <<"/downloads", r.fileName>>]

\* ---------------------------------------------------------------- faults
B(f) == IF f THEN 1 ELSE 0

\* outcomes of a file-system call: FALSE it succeeds, TRUE it returns an error
Fail == IF nFaults < MaxFaults THEN {FALSE, TRUE} ELSE {FALSE}

Running == phase = "running"

Goto(p, label) == pc' = [pc EXCEPT ![p] = label]

NoResp == [op |-> "none", code |-> 0, packageName |-> "", body |-> ""]

\* the body a handler writes with a status (the message of c.JSON or
\* c.String, the template of c.HTML, the target of c.Redirect); the
\* handlers' messages are rendered in English
Body(op, code) ==
  CASE op = "deleteBuild" /\ code = 401 -> "wrong delete password"
    [] op = "deleteBuild" /\ code = 404 -> "build not found"
    [] op = "deleteBuild" /\ code = 500 -> "metadata update failed"
    [] op = "deleteBuild" /\ code = 200 -> "build deleted"
    [] op = "deleteApp" /\ code = 401 -> "wrong delete password"
    [] op = "deleteApp" /\ code = 404 -> "app not found"
    [] op = "deleteApp" /\ code = 500 -> "metadata update failed"
    [] op = "deleteApp" /\ code = 200 -> "app deleted"
    [] op = "detail" /\ code = 404 -> "app not found"
    [] op = "detail" /\ code = 200 -> "details.html"
    [] op = "list" /\ code = 200 -> "index.html"
    [] op = "upload" /\ code = 500 -> "metadata update failed"
    [] op = "upload" /\ code = 302 -> "/?upload=success"
    [] op = "upload" /\ code = 200 -> "Upload successful"

Response(op, code, packageName) ==
  [op |-> op, code |-> code, packageName |-> packageName,
   body |-> Body(op, code)]

\* the handler of p writes its response and returns; its locals are gone
Finish(p, code) ==
  /\ pc' = [pc EXCEPT ![p] = "idle"]
  /\ resp' = Response(req[p].op, code, req[p].packageName)
  /\ req' = [req EXCEPT ![p] = NoReq]

\* a request is received; gin serves it on a fresh goroutine, here the
\* first idle one
Receive(p) ==
  /\ Running
  /\ pc[p] = "idle"
  /\ \A q \in Procs : q < p => pc[q] # "idle"
  /\ nReqs < MaxRequests
  /\ nReqs' = nReqs + 1

\* faulty variant: Lock returns while another goroutine holds the mutex
CanLockAlways(p) == TRUE

\* mutex.Lock() called by p can return: the mutex is free
CanLock(p) == mutex = 0

Init ==
  /\ allProjects = << >>
  /\ mutex = 0
  /\ file = NoFile
  /\ bak = NoFile
  /\ uploads = {}
  /\ temps = {}
  /\ icons = {}
  /\ pc = [p \in Procs |-> "idle"]
  /\ req = [p \in Procs |-> NoReq]
  /\ resp = NoResp
  /\ err = [p \in Procs |-> FALSE]
  /\ now = 0
  /\ phase = "running"
  /\ backedUp = FALSE
  /\ lastSaveErr = FALSE
  /\ nReqs = 0
  /\ nFaults = 0
  /\ nCrashes = 0

\* the wall clock advances
Tick ==
  /\ Running
  /\ now < MaxTime
  /\ now' = now + 1
  /\ UNCHANGED <<allProjects, mutex, file, bak, uploads, temps, icons, pc, req,
                 resp, err, phase, backedUp, lastSaveErr,
                 nReqs, nFaults, nCrashes>>

\* ---------------------------------------------------------------- upload
\* handleApiUpload up to its call of updateMetadata: SaveUploadedFile to the
\* temp path, apk.OpenFile and the three fields (a malformed artifact is
\* answered 500), the copy to uploads/<uniqueFilename>, the icon (a failing
\* pkg.Icon only leaves iconPath empty), AppInfo and BuildInfo.  Every early
\* return runs the deferred os.Remove(tempSavePath).
UploadStage(p) ==
  /\ Receive(p)
  /\ \E pn \in Names(ProjectNames, nReqs + 1), c \in Channels :
     LET id == nReqs + 1
         Abort(faults, strayTemp, files, iconFiles, message) ==
           /\ nFaults + faults + B(strayTemp) <= MaxFaults
           /\ nFaults' = nFaults + faults + B(strayTemp)
           /\ temps' = IF strayTemp THEN temps \cup {id} ELSE temps
           /\ uploads' = files
           /\ icons' = iconFiles
           /\ pc' = pc
           /\ req' = req
           /\ resp' = [op |-> "upload", code |-> 500, packageName |-> "",
                        body |-> message]
     IN \* SaveUploadedFile fails
        \/ Abort(1, FALSE, uploads, icons, "save file error")
        \* apk.OpenFile fails, or the label, package or version is missing
        \/ \E g \in BOOLEAN : Abort(0, g, uploads, icons, "parse APK failed")
        \/ \E an \in Names(AppNames, id), k \in Names(PackageNames, id),
              v \in Versions :
             LET name == uniqueFilename(k, v, c, now)
                 r == [NoReq EXCEPT !.op = "upload", !.id = id,
                                    !.projectName = pn, !.channel = c,
                                    !.appName = an, !.packageName = k,
                                    !.version = v, !.fileName = name,
                                    !.uploadTime = now]
                 Staged(iconPath, iconFiles) ==
                   /\ req' = [req EXCEPT ![p] = [r EXCEPT !.iconPath = iconPath]]
                   /\ Goto(p, "u_lock")
                   /\ temps' = temps \cup {id}
                   /\ uploads' = uploads \cup {name}
                   /\ icons' = iconFiles
                   /\ UNCHANGED <<resp, nFaults>>
             IN \* os.WriteFile(finalSavePath) fails, with or without a file
                \/ \E partial \in BOOLEAN, g \in BOOLEAN :
                     Abort(1, g, IF partial THEN uploads \cup {name}
                                 ELSE uploads, icons,
                           "cannot save final file")
                \* os.Create or png.Encode of the icon fails
                \/ \E created \in BOOLEAN, g \in BOOLEAN :
                     Abort(1, g, uploads \cup {name},
                           IF created THEN icons \cup {k} ELSE icons,
                           "cannot write icon")
                \/ Staged(NoIcon, icons)
                \/ Staged(relativeIconPath(k), icons \cup {k})
  /\ UNCHANGED <<allProjects, mutex, file, bak, err, now, phase,
                 backedUp, lastSaveErr, nCrashes>>

\* ---------------------------------------------------------- saveMetadata
\* os.Stat(metadataFilePath) and os.Rename(metadataFilePath, backupPath),
\* the first statement of saveMetadata; renameFails is the outcome of Rename
SaveBackup(renameFails) ==
  /\ renameFails => file.kind # "absent"
  /\ nFaults + B(renameFails) <= MaxFaults
  /\ nFaults' = nFaults + B(renameFails)
  /\ IF file.kind = "absent" \/ renameFails
     THEN UNCHANGED <<file, bak>> /\ backedUp' = FALSE
     ELSE bak' = file /\ file' = NoFile /\ backedUp' = TRUE
  /\ lastSaveErr' = IF renameFails THEN TRUE ELSE lastSaveErr

\* json.MarshalIndent(allProjects) and os.WriteFile(metadataFilePath, data):
\* a failing write leaves the path as it was or holding a prefix of the data
SaveWrite(p) ==
  /\ Running
  /\ pc[p] = "s_write"
  /\ \E f \in Fail, partial \in BOOLEAN :
       /\ partial => f
       /\ nFaults' = nFaults + B(f)
       /\ file' = IF ~f THEN Document(Marshal(allProjects))
                  ELSE IF partial THEN Truncated ELSE file
       /\ Goto(p, IF f THEN "s_restore" ELSE "s_remove")
  /\ UNCHANGED <<allProjects, mutex, bak, uploads, temps, icons, req, resp,
                 err, now, phase, backedUp, lastSaveErr,
                 nReqs, nCrashes>>

\* faulty variant: the error path removes the backup instead of renaming it
\* back
SaveRestoreRemovesBackup(renameFails) ==
  /\ renameFails => bak.kind # "absent"
  /\ bak' = IF renameFails THEN bak ELSE NoFile
  /\ file' = file
  /\ backedUp' = FALSE
  /\ lastSaveErr' = TRUE

\* write error: os.Rename(backupPath, metadataFilePath), which fails when
\* there is no backup
SaveRestore(renameFails) ==
  /\ renameFails => bak.kind # "absent"
  /\ IF bak.kind = "absent" \/ renameFails
     THEN UNCHANGED <<file, bak>>
     ELSE file' = bak /\ bak' = NoFile
  /\ backedUp' = FALSE
  /\ lastSaveErr' = TRUE

\* faulty variant: the success path renames the backup over the file it just wrote
SaveRemoveBackupRestores(removeFails) ==
  /\ removeFails => bak.kind # "absent"
  /\ IF bak.kind = "absent" \/ removeFails
     THEN UNCHANGED <<file, bak>>
     ELSE file' = bak /\ bak' = NoFile
  /\ backedUp' = FALSE
  /\ lastSaveErr' = FALSE

\* faulty variant: the success path leaves the backup in place
SaveRemoveBackupKeeps(removeFails) ==
  /\ removeFails => bak.kind # "absent"
  /\ bak' = bak
  /\ file' = file
  /\ backedUp' = FALSE
  /\ lastSaveErr' = FALSE

\* success: os.Remove(backupPath)
SaveRemoveBackup(removeFails) ==
  /\ removeFails => bak.kind # "absent"
  /\ bak' = IF removeFails THEN bak ELSE NoFile
  /\ file' = file
  /\ backedUp' = FALSE
  /\ lastSaveErr' = FALSE

\* the last statement of saveMetadata, by the outcome of the write
SaveEnd(p, f) ==
  IF pc[p] = "s_restore" THEN SaveRestore(f) ELSE SaveRemoveBackup(f)

\* updateMetadata: Lock, the in-memory upsert, and saveMetadata up to its
\* write; a failing backup rename returns (and unlocks) at once
UploadUpdate(p) ==
  /\ Running
  /\ pc[p] = "u_lock"
  /\ CanLock(p)
  /\ allProjects' = updateMetadata(allProjects, req[p].projectName,
                                   AppInfoOf(req[p]), BuildInfoOf(req[p]))
  /\ \E f \in Fail :
       /\ SaveBackup(f)
       /\ IF f THEN /\ Goto(p, "u_resp")
                    /\ err' = [err EXCEPT ![p] = TRUE]
                    /\ mutex' = 0
               ELSE /\ Goto(p, "s_write")
                    /\ err' = err
                    /\ mutex' = p
  /\ UNCHANGED <<uploads, temps, icons, req, resp, now, phase,
                 nReqs, nCrashes>>

\* saveMetadata after its write, and updateMetadata's return with the
\* deferred Unlock
UploadSaved(p) ==
  /\ Running
  /\ pc[p] \in {"s_restore", "s_remove"}
  /\ req[p].op = "upload"
  /\ \E f \in Fail :
       /\ nFaults' = nFaults + B(f)
       /\ SaveEnd(p, f)
  /\ err' = [err EXCEPT ![p] = (pc[p] = "s_restore")]
  /\ mutex' = 0
  /\ Goto(p, "u_resp")
  /\ UNCHANGED <<allProjects, uploads, temps, icons, req, resp, now, phase,
                 nReqs, nCrashes>>

\* faulty variant: the artifact stays when updateMetadata returned an error
UploadRespondKeepsArtifact(p) ==
  /\ Running
  /\ pc[p] = "u_resp"
  /\ \E g \in Fail, source \in {"web", "api"} :
       /\ err[p] => source = "api"
       /\ nFaults' = nFaults + B(g)
       /\ uploads' = uploads
       /\ temps' = IF g THEN temps ELSE temps \ {req[p].id}
       /\ Finish(p, IF err[p] THEN 500
                    ELSE IF source = "web" THEN 302 ELSE 200)
  /\ err' = [err EXCEPT ![p] = FALSE]
  /\ UNCHANGED <<allProjects, mutex, file, bak, icons, now, phase,
                 backedUp, lastSaveErr, nReqs, nCrashes>>

\* handleApiUpload after updateMetadata: os.Remove(finalSavePath) on error,
\* the response (a redirect for source=web), the deferred
\* os.Remove(tempSavePath)
UploadRespond(p) ==
  /\ Running
  /\ pc[p] = "u_resp"
  /\ \E f \in Fail, g \in Fail, source \in {"web", "api"} :
       /\ nFaults + B(f) + B(g) <= MaxFaults
       /\ f => err[p] /\ req[p].fileName \in uploads
       /\ err[p] => source = "api"
       /\ nFaults' = nFaults + B(f) + B(g)
       /\ uploads' = IF err[p] /\ ~f THEN uploads \ {req[p].fileName}
                                     ELSE uploads
       /\ temps' = IF g THEN temps ELSE temps \ {req[p].id}
       /\ Finish(p, IF err[p] THEN 500
                    ELSE IF source = "web" THEN 302 ELSE 200)
  /\ err' = [err EXCEPT ![p] = FALSE]
  /\ UNCHANGED <<allProjects, mutex, file, bak, icons, now, phase,
                 backedUp, lastSaveErr, nReqs, nCrashes>>

\* ----------------------------------------------------------- deleteBuild
\* the status and body handleDeleteBuild answers to a request with the right
\* password, given the outcome of its saveMetadata
DeleteBuildOutcome(projs, packageName, fileName, saveFails) ==
  LET code == IF ~DeleteBuild(projs, packageName, fileName).buildFound THEN 404
              ELSE IF saveFails THEN 500 ELSE 200
  IN <<code, Body("deleteBuild", code)>>

\* faulty variant: only a missing password is refused
UnauthorizedOnEmpty(password) == password = ""

\* c.Query("password") != deletePassword
Unauthorized(password) == password # deletePassword

\* the file names a deleteBuild request for the package may carry
FileNamesFor(k) ==
  {uniqueFilename(k, v, c, t) : v \in Versions, c \in Channels,
                                t \in 0..MaxTime}

\* handleDeleteBuild: the password check and the route parameters, for a
\* request that carries the password pw
DeleteBuildRequest(p, pw) ==
  /\ Receive(p)
  /\ \E k \in Names(PackageNames, nReqs + 1) :
       IF Unauthorized(pw)
       THEN /\ resp' = Response("deleteBuild", 401, k)
            /\ UNCHANGED <<pc, req>>
       ELSE \E fn \in FileNamesFor(k) :
              /\ req' = [req EXCEPT ![p] =
                           [NoReq EXCEPT !.op = "deleteBuild", !.password = pw,
                                         !.packageName = k, !.fileName = fn]]
              /\ Goto(p, "db_lock")
              /\ resp' = resp
  /\ UNCHANGED <<allProjects, mutex, file, bak, uploads, temps, icons, err,
                 now, phase, backedUp, lastSaveErr, nFaults, nCrashes>>

DeleteBuildStart(p) == \E pw \in Passwords : DeleteBuildRequest(p, pw)

\* Lock, the search loop, the 404 return (with the deferred Unlock), the
\* removal of an app left without builds, and saveMetadata up to its write;
\* a failing backup rename is answered 500
DeleteBuildRemove(p) ==
  /\ Running
  /\ pc[p] = "db_lock"
  /\ CanLock(p)
  /\ LET d == DeleteBuild(allProjects, req[p].packageName, req[p].fileName)
     IN /\ allProjects' = d.projects
        /\ IF ~d.buildFound
           THEN /\ Finish(p, 404)
                /\ mutex' = 0
                /\ UNCHANGED <<file, bak, backedUp, lastSaveErr, nFaults>>
           ELSE \E f \in Fail :
                  /\ SaveBackup(f)
                  /\ IF f THEN Finish(p, 500) /\ mutex' = 0
                          ELSE /\ Goto(p, "s_write")
                               /\ mutex' = p
                               /\ UNCHANGED <<req, resp>>
  /\ UNCHANGED <<uploads, temps, icons, err, now, phase,
                 nReqs, nCrashes>>

\* faulty variant: on a save error the handler reloads the registry from the
\* restored file, undoing its removal
DeleteBuildSavedReloads(p) ==
  /\ Running
  /\ pc[p] \in {"s_restore", "s_remove"}
  /\ req[p].op = "deleteBuild"
  /\ \E f \in Fail, g \in Fail :
       /\ nFaults + B(f) + B(g) <= MaxFaults
       /\ nFaults' = nFaults + B(f) + B(g)
       /\ SaveEnd(p, f)
       /\ g => pc[p] = "s_remove" /\ req[p].fileName \in uploads
       /\ uploads' = IF pc[p] = "s_remove" /\ ~g
                     THEN uploads \ {req[p].fileName} ELSE uploads
  /\ allProjects' = IF pc[p] = "s_restore" /\ file'.kind = "json"
                    THEN Unmarshal(file'.doc) ELSE allProjects
  /\ Finish(p, IF pc[p] = "s_restore" THEN 500 ELSE 200)
  /\ mutex' = 0
  /\ UNCHANGED <<temps, icons, err, now, phase, nReqs, nCrashes>>

\* saveMetadata after its write, then 500 on error, else os.Remove of the
\* artifact and 200; the deferred Unlock runs on both returns
DeleteBuildSaved(p) ==
  /\ Running
  /\ pc[p] \in {"s_restore", "s_remove"}
  /\ req[p].op = "deleteBuild"
  /\ \E f \in Fail, g \in Fail :
       /\ nFaults + B(f) + B(g) <= MaxFaults
       /\ nFaults' = nFaults + B(f) + B(g)
       /\ SaveEnd(p, f)
       /\ g => pc[p] = "s_remove" /\ req[p].fileName \in uploads
       /\ uploads' = IF pc[p] = "s_remove" /\ ~g
                     THEN uploads \ {req[p].fileName} ELSE uploads
  /\ Finish(p, IF pc[p] = "s_restore" THEN 500 ELSE 200)
  /\ mutex' = 0
  /\ UNCHANGED <<allProjects, temps, icons, err, now, phase,
                 nReqs, nCrashes>>

\* ------------------------------------------------------------- deleteApp
\* handleDeleteApp: the password check and the route parameter
DeleteAppRequest(p, pw) ==
  /\ Receive(p)
  /\ \E k \in Names(PackageNames, nReqs + 1) :
       IF Unauthorized(pw)
       THEN /\ resp' = Response("deleteApp", 401, k)
            /\ UNCHANGED <<pc, req>>
       ELSE /\ req' = [req EXCEPT ![p] =
                         [NoReq EXCEPT !.op = "deleteApp", !.password = pw,
                                       !.packageName = k]]
            /\ Goto(p, "da_lock")
            /\ resp' = resp
  /\ UNCHANGED <<allProjects, mutex, file, bak, uploads, temps, icons, err,
                 now, phase, backedUp, lastSaveErr, nFaults, nCrashes>>

DeleteAppStart(p) == \E pw \in Passwords : DeleteAppRequest(p, pw)

\* Lock, the search loop, the 404 return, the removal of an emptied project,
\* and saveMetadata up to its write; the file names of buildsToDelete are
\* kept for the file removal
DeleteAppRemove(p) ==
  /\ Running
  /\ pc[p] = "da_lock"
  /\ CanLock(p)
  /\ LET d == DeleteApp(allProjects, req[p].packageName)
     IN /\ allProjects' = d.projects
        /\ IF ~d.appFound
           THEN /\ Finish(p, 404)
                /\ mutex' = 0
                /\ UNCHANGED <<file, bak, backedUp, lastSaveErr, nFaults>>
           ELSE \E f \in Fail :
                  /\ SaveBackup(f)
                  /\ IF f THEN Finish(p, 500) /\ mutex' = 0
                          ELSE /\ Goto(p, "s_write")
                               /\ mutex' = p
                               /\ req' = [req EXCEPT ![p].fileName =
                                            [i \in Indices(d.buildsToDelete) |->
                                               d.buildsToDelete[i].FileName]]
                               /\ resp' = resp
  /\ UNCHANGED <<uploads, temps, icons, err, now, phase,
                 nReqs, nCrashes>>

Range(s) == {s[i] : i \in Indices(s)}

\* saveMetadata after its write, then 500 on error, else os.Remove of every
\* artifact of the app and of its icon, and 200
DeleteAppSaved(p) ==
  /\ Running
  /\ pc[p] \in {"s_restore", "s_remove"}
  /\ req[p].op = "deleteApp"
  /\ LET names == IF pc[p] = "s_remove" THEN Range(req[p].fileName) ELSE {}
     IN \E f \in Fail, kept \in SUBSET (names \cap uploads), g \in Fail :
          /\ nFaults + B(f) + Cardinality(kept) + B(g) <= MaxFaults
          /\ nFaults' = nFaults + B(f) + Cardinality(kept) + B(g)
          /\ SaveEnd(p, f)
          /\ g => pc[p] = "s_remove" /\ req[p].packageName \in icons
          /\ uploads' = (uploads \ names) \cup kept
          /\ icons' = IF pc[p] = "s_remove" /\ ~g
                      THEN icons \ {req[p].packageName} ELSE icons
  /\ Finish(p, IF pc[p] = "s_restore" THEN 500 ELSE 200)
  /\ mutex' = 0
  /\ UNCHANGED <<allProjects, temps, err, now, phase,
                 nReqs, nCrashes>>

\* ------------------------------------------------------------------ reads
\* GET / and GET /app/:packageName are received
ReadStart(p) ==
  /\ Receive(p)
  /\ \/ req' = [req EXCEPT ![p] = [NoReq EXCEPT !.op = "list"]]
     \/ \E k \in Names(PackageNames, nReqs + 1) :
          req' = [req EXCEPT ![p] = [NoReq EXCEPT !.op = "detail",
                                                  !.packageName = k]]
  /\ Goto(p, "r_lock")
  /\ UNCHANGED <<allProjects, mutex, file, bak, uploads, temps, icons, resp,
                 err, now, phase, backedUp, lastSaveErr,
                 nFaults, nCrashes>>

ReadLock(p) ==
  /\ Running
  /\ pc[p] = "r_lock"
  /\ CanLock(p)
  /\ mutex' = p
  /\ Goto(p, "r_render")
  /\ UNCHANGED <<allProjects, file, bak, uploads, temps, icons, req, resp,
                 err, now, phase, backedUp, lastSaveErr,
                 nReqs, nFaults, nCrashes>>

\* faulty variant: the page handler returns without Unlock
ReadRenderKeepsLock(p) ==
  /\ Running
  /\ pc[p] = "r_render"
  /\ Finish(p, IF req[p].op = "detail"
                  /\ FindApp(allProjects, req[p].packageName) = <<0, 0>>
               THEN 404 ELSE 200)
  /\ mutex' = mutex
  /\ UNCHANGED <<allProjects, file, bak, uploads, temps, icons, err, now,
                 phase, backedUp, lastSaveErr,
                 nReqs, nFaults, nCrashes>>

\* the page is rendered from allProjects under the lock; the detail page
\* answers 404 when no AppEntry has the package name
ReadRender(p) ==
  /\ Running
  /\ pc[p] = "r_render"
  /\ Finish(p, IF req[p].op = "detail"
                  /\ FindApp(allProjects, req[p].packageName) = <<0, 0>>
               THEN 404 ELSE 200)
  /\ mutex' = 0
  /\ UNCHANGED <<allProjects, file, bak, uploads, temps, icons, err, now,
                 phase, backedUp, lastSaveErr,
                 nReqs, nFaults, nCrashes>>

\* ------------------------------------------------- interruption, restart
\* the process is killed and started again: memory is lost, the files stay
\* (a write of metadata.json that had been started may have left a prefix),
\* and main calls loadMetadata, which panics on a document it cannot parse
Restart ==
  /\ Running
  /\ nCrashes < MaxCrashes
  /\ nCrashes' = nCrashes + 1
  /\ \E left \in IF mutex # 0 /\ pc[mutex] = "s_write"
                 THEN {file, Truncated} ELSE {file} :
       /\ file' = left
       /\ IF Parses(left) \/ left.kind = "absent"
          THEN phase' = "running" /\ allProjects' = Loaded(left)
          ELSE phase' = "panicked" /\ allProjects' = << >>
  /\ mutex' = 0
  /\ pc' = [p \in Procs |-> "idle"]
  /\ req' = [p \in Procs |-> NoReq]
  /\ resp' = NoResp
  /\ err' = [p \in Procs |-> FALSE]
  /\ backedUp' = FALSE
  /\ lastSaveErr' = FALSE
  /\ UNCHANGED <<bak, uploads, temps, icons, now, nReqs, nFaults>>

Step(p) ==
  \/ UploadStage(p) \/ UploadUpdate(p) \/ UploadSaved(p) \/ UploadRespond(p)
  \/ DeleteBuildStart(p) \/ DeleteBuildRemove(p) \/ DeleteBuildSaved(p)
  \/ DeleteAppStart(p) \/ DeleteAppRemove(p) \/ DeleteAppSaved(p)
  \/ ReadStart(p) \/ ReadLock(p) \/ ReadRender(p)
  \/ SaveWrite(p)

Next == (\E p \in Procs : Step(p)) \/ Tick \/ Restart

Spec == Init /\ [][Next]_vars

\* scheduling: a goroutine that can run is eventually run and every file
\* operation returns, so each step inside a handler is eventually taken; a
\* goroutine blocked in Lock is handed the mutex once it has waited (the
\* starvation mode of sync.Mutex), so the locking steps are strongly fair
Fairness ==
  \A p \in Procs :
    /\ WF_vars(SaveWrite(p) \/ UploadSaved(p) \/ DeleteBuildSaved(p)
                 \/ DeleteAppSaved(p) \/ ReadRender(p) \/ UploadRespond(p))
    /\ SF_vars(UploadUpdate(p) \/ DeleteBuildRemove(p) \/ DeleteAppRemove(p)
                 \/ ReadLock(p))

SpecFair == Spec /\ Fairness

\* ------------------------------------- a registry after two uploads
\* the locals of an upload of package com.a, version 1.0, channel beta,
\* without icon, at second 0 under the given project name
UploadOf(projectName) ==
  [NoReq EXCEPT !.op = "upload", !.projectName = projectName,
                !.channel = "beta", !.appName = "App",
                !.packageName = "com.a", !.version = "1.0",
                !.fileName = uniqueFilename("com.a", "1.0", "beta", 0)]

\* the registry after these uploads under the first two project names
TwoProjects ==
  LET first == UploadOf(ProjectNames[1])
      second == UploadOf(ProjectNames[2])
  IN updateMetadata(
       updateMetadata(<< >>, first.projectName, AppInfoOf(first),
                      BuildInfoOf(first)),
       second.projectName, AppInfoOf(second), BuildInfoOf(second))

\* the state of the program when both uploads have been answered
AfterTwoUploads ==
  /\ allProjects = TwoProjects
  /\ mutex = 0
  /\ file = Document(Marshal(TwoProjects))
  /\ bak = NoFile
  /\ uploads = {uniqueFilename("com.a", "1.0", "beta", 0)}
  /\ temps = {}
  /\ icons = {}
  /\ pc = [p \in Procs |-> "idle"]
  /\ req = [p \in Procs |-> NoReq]
  /\ resp = Response("upload", 200, "com.a")
  /\ err = [p \in Procs |-> FALSE]
  /\ now = 0
  /\ phase = "running"
  /\ backedUp = FALSE
  /\ lastSaveErr = FALSE

\* the program continues from there with MaxRequests further requests
InitAfterTwoUploads ==
  /\ AfterTwoUploads
  /\ nReqs = 0
  /\ nFaults = 0
  /\ nCrashes = 0

SpecAfterTwoUploads == InitAfterTwoUploads /\ [][Next]_vars

\* ------------------------------- a registry after one upload with an icon
\* the locals of the same upload under the first project name when pkg.Icon
\* succeeded and the icon was written
UploadWithIcon ==
  [UploadOf(ProjectNames[1]) EXCEPT !.iconPath = relativeIconPath("com.a")]

\* the registry this upload leaves
OneProject ==
  updateMetadata(<< >>, UploadWithIcon.projectName, AppInfoOf(UploadWithIcon),
                 BuildInfoOf(UploadWithIcon))

\* the state of the program when the upload has been answered
AfterOneUpload ==
  /\ allProjects = OneProject
  /\ mutex = 0
  /\ file = Document(Marshal(OneProject))
  /\ bak = NoFile
  /\ uploads = {UploadWithIcon.fileName}
  /\ temps = {}
  /\ icons = {"com.a"}
  /\ pc = [p \in Procs |-> "idle"]
  /\ req = [p \in Procs |-> NoReq]
  /\ resp = Response("upload", 200, "com.a")
  /\ err = [p \in Procs |-> FALSE]
  /\ now = 0
  /\ phase = "running"
  /\ backedUp = FALSE
  /\ lastSaveErr = FALSE

\* the program continues from there with MaxRequests further requests
InitAfterOneUpload ==
  /\ AfterOneUpload
  /\ nReqs = 0
  /\ nFaults = 0
  /\ nCrashes = 0

SpecAfterOneUpload == InitAfterOneUpload /\ [][Next]_vars

\* ------------------------------- a registry after two restarts
\* the locals of an upload of package com.b under the second project name
UploadOfB ==
  [UploadOf(ProjectNames[2]) EXCEPT
     !.packageName = "com.b",
     !.fileName = uniqueFilename("com.b", "1.0", "beta", 0)]

\* the registry main loads after an upload of com.a under the second project
\* name was saved
FirstLoad ==
  LET r == UploadOf(ProjectNames[2])
  IN Loaded(Document(Marshal(
       updateMetadata(<< >>, r.projectName, AppInfoOf(r), BuildInfoOf(r)))))

\* the registry main loads after the restarted process saved an upload of
\* com.b under the same project name
SecondLoad ==
  Loaded(Document(Marshal(
    updateMetadata(FirstLoad, UploadOfB.projectName, AppInfoOf(UploadOfB),
                   BuildInfoOf(UploadOfB)))))

\* the state of the program when main has loaded the file the second time
AfterTwoRestarts ==
  /\ allProjects = SecondLoad
  /\ mutex = 0
  /\ file = Document(Marshal(SecondLoad))
  /\ bak = NoFile
  /\ uploads = {UploadOf(ProjectNames[2]).fileName, UploadOfB.fileName}
  /\ temps = {}
  /\ icons = {}
  /\ pc = [p \in Procs |-> "idle"]
  /\ req = [p \in Procs |-> NoReq]
  /\ resp = NoResp
  /\ err = [p \in Procs |-> FALSE]
  /\ now = 0
  /\ phase = "running"
  /\ backedUp = FALSE
  /\ lastSaveErr = FALSE

\* the program continues from there with MaxRequests further requests
InitAfterTwoRestarts ==
  /\ AfterTwoRestarts
  /\ nReqs = 0
  /\ nFaults = 0
  /\ nCrashes = 0

SpecAfterTwoRestarts == InitAfterTwoRestarts /\ [][Next]_vars

\* ================================================================ claims
Apps == AllApps(allProjects)

Idle == \A p \in Procs : pc[p] = "idle"

\* the lock is free or held by a page handler: no mutation is in flight
NoMutationInFlight == mutex = 0 \/ req[mutex].op \in {"list", "detail"}

\* goroutine p is between mutex.Lock() and mutex.Unlock()
InCriticalSection(p) == pc[p] \in {"s_write", "s_restore", "s_remove", "r_render"}

\* goroutine p is blocked in, or about to call, mutex.Lock()
AtLock(p) == pc[p] \in {"u_lock", "db_lock", "da_lock", "r_lock"}

\* the step is taken by the running process, not by its restart
SameProcess == nCrashes' = nCrashes

\* C1: after any sequence of upsertBuild calls the registry holds at most one
\* AppEntry per packageName, across all projects.
C1_OneAppPerPackage ==
  \A i, j \in Indices(Apps) :
    Apps[i].PackageName = Apps[j].PackageName => i = j

\* C2: from the empty registry, after any upsertBuild, deleteBuild and
\* deleteApp operations, the registry holds at most one Project per
\* projectName: in the process that started with the empty registry no two
\* projects have the same name.
C2_OneProjectPerName ==
  nCrashes = 0 =>
    \A i, j \in Indices(allProjects) :
      allProjects[i].ProjectName = allProjects[j].ProjectName => i = j

\* a project that was upserted twice
C2_Witness ==
  /\ Idle
  /\ nCrashes = 0
  /\ Len(allProjects) = 1
  /\ Len(AllBuilds(allProjects[1].Apps)) = 2

\* C3: when upsertBuild(p, app, b) returns, with or without a persistence
\* error, b is at index 0 of the build list of app.packageName in project p
\* and the earlier builds follow in their previous order: the in-memory step
\* prepends b, and the rest of the call leaves the registry as it is.
C3_UpsertPrepends ==
  [][SameProcess =>
       \A p \in Procs :
         LET r == req[p]
         IN /\ (pc[p] = "u_lock" /\ pc'[p] # "u_lock") =>
                 BuildsOf(allProjects', r.projectName, r.packageName)
                   = <<BuildInfoOf(r)>>
                       \o BuildsOf(allProjects, r.projectName, r.packageName)
            /\ (r.op = "upload" /\ InCriticalSection(p) /\ pc'[p] # pc[p]) =>
                 allProjects' = allProjects]_vars

\* updateMetadata has just returned a persistence error for the second build
\* of an app, and the new build precedes the old one
C3_Witness ==
  \E p \in Procs :
    /\ pc[p] = "u_resp"
    /\ err[p]
    /\ mutex = 0
    /\ LET bs == BuildsOf(allProjects, req[p].projectName, req[p].packageName)
       IN /\ Len(bs) = 2
          /\ bs[1] = BuildInfoOf(req[p])
          /\ bs[2] # bs[1]

\* C4: a successful deleteBuild that removes the last build of the only
\* AppEntry of a Project removes the AppEntry and the Project in the same
\* operation: when a deleteBuild is answered 200 and releases the lock, no
\* Project has an empty app list.
C4_NoEmptyProject ==
  [][\A p \in Procs :
       (/\ SameProcess
        /\ req[p].op = "deleteBuild"
        /\ pc[p] = "s_remove"
        /\ pc'[p] = "idle") =>
         /\ resp'.code = 200
         /\ mutex' = 0
         /\ \A i \in Indices(allProjects') : allProjects'[i].Apps # << >>]_vars

\* C5: from the empty registry, while no mutation holds the lock, every
\* AppEntry in the registry has a non-empty build list.
C5_BuildsNonEmpty ==
  (Running /\ NoMutationInFlight) =>
    \A i \in Indices(Apps) : Apps[i].Builds # << >>

\* a deleteBuild has removed the only build of an app, and the app with it
C5_Witness ==
  /\ Idle
  /\ resp.op = "deleteBuild"
  /\ resp.code = 200
  /\ FindApp(allProjects, resp.packageName) = <<0, 0>>
  /\ file.kind = "json"

\* C6: deleteBuild with the right password, an existing packageName and a
\* fileName that none of that app's builds has answers 404 and leaves the
\* registry, metadata.json, its backup and the stored files as they were.
C6_UnknownFileLeavesAll ==
  [][SameProcess =>
       \A p \in Procs :
         LET named == SelectSeq(Apps,
                        LAMBDA a : a.PackageName = req[p].packageName)
         IN (/\ pc[p] = "db_lock"
             /\ pc'[p] # "db_lock"
             /\ named # << >>
             /\ req[p].fileName \notin FileNamesOf(named[1].Builds)) =>
              /\ resp' = Response("deleteBuild", 404, req[p].packageName)
              /\ pc'[p] = "idle"
              /\ UNCHANGED <<allProjects, file, bak, uploads, icons, temps>>]_vars

\* a deleteBuild for an app that is in the registry was answered 404
C6_Witness ==
  /\ Idle
  /\ resp.op = "deleteBuild"
  /\ resp.code = 404
  /\ FindApp(allProjects, resp.packageName) # <<0, 0>>
  /\ file.kind = "json"

\* C7: a deleteBuild or deleteApp request whose password differs from the
\* configured one is answered 401 without taking the lock and changes
\* neither the registry, nor metadata.json, nor any stored file.
C7_WrongPasswordNoEffect ==
  [][\A p \in Procs : \A pw \in Passwords :
       (pw # deletePassword
        /\ (DeleteBuildRequest(p, pw) \/ DeleteAppRequest(p, pw))) =>
         /\ resp'.code = 401
         /\ pc'[p] = "idle"
         /\ UNCHANGED <<allProjects, mutex, file, bak, uploads, icons,
                        temps>>]_vars

\* a delete of an app that is in the registry was answered 401
C7_Witness ==
  /\ Idle
  /\ resp.op \in {"deleteBuild", "deleteApp"}
  /\ resp.code = 401
  /\ FindApp(allProjects, resp.packageName) # <<0, 0>>
  /\ uploads # {}

\* C8: if the process is interrupted during save after the rename to the
\* backup path and before the primary write completes, the load of the next
\* start yields the registry that was durable before that save.
C8_CrashRecoversBackup ==
  [][(/\ nCrashes' = nCrashes + 1
      /\ mutex # 0
      /\ pc[mutex] = "s_write"
      /\ backedUp) =>
       (phase' = "running" /\ allProjects' = Loaded(bak))]_vars

C10_Serialized ==
  [][SameProcess =>
       /\ \A p, q \in Procs :
            (InCriticalSection(p)' /\ InCriticalSection(q)') => p = q
       /\ \A p \in Procs : InCriticalSection(p)' => mutex' = p
       /\ \A q \in Procs :
            (pc'[q] # pc[q] /\ mutex \notin {0, q}) =>
              UNCHANGED <<allProjects, file, bak, mutex>>
       /\ (<<allProjects, file, bak>>' # <<allProjects, file, bak>>) =>
            \E q \in Procs :
              /\ pc'[q] # pc[q]
              /\ mutex = q \/ (mutex = 0 /\ AtLock(q))
              /\ \A r \in Procs \ {q} : pc'[r] = pc[r]]_vars

\* one request writes metadata.json under the lock while another waits for it
C10_Witness ==
  \E p, q \in Procs :
    /\ p # q
    /\ pc[p] = "s_write"
    /\ mutex = p
    /\ AtLock(q)
    /\ req[q].op # "upload"

\* C11: serializing any registry reachable through upsertBuild, deleteBuild
\* and deleteApp with save and reading it back with load yields a registry
\* equal to the saved one in every field and in the order of projects, apps
\* and builds.
C11_RoundTrip ==
  Running => Unmarshal(Marshal(allProjects)) = allProjects

\* saveMetadata called by p returns the error of its backup rename
BackupRenameFailed(p) ==
  /\ AtLock(p)
  /\ pc'[p] # pc[p]
  /\ lastSaveErr'
  /\ \/ pc'[p] = "u_resp" /\ err'[p]
     \/ pc'[p] = "idle" /\ resp'.code = 500

\* saveMetadata called by p returns the error of its write, and the restore
\* rename succeeded if a backup had been made
WriteFailed(p) ==
  /\ pc[p] = "s_restore"
  /\ pc'[p] # "s_restore"
  /\ backedUp => bak' = NoFile

\* the content of metadata.json before the running saveMetadata was called:
\* the backup when the call made one, no file otherwise
FileBeforeSave == IF backedUp THEN bak ELSE NoFile

\* C12: whenever saveMetadata returns an error, metadata.json is as it was
\* before the call (given that the restore rename succeeds whenever a backup
\* was made), also when no file existed before the call.
C12_FailedSaveKeepsDisk ==
  [][SameProcess =>
       \A p \in Procs :
         /\ BackupRenameFailed(p) => file' = file
         /\ WriteFailed(p) => file' = FileBeforeSave]_vars

\* C12 as amended: whenever saveMetadata returns an error and metadata.json
\* existed before the call, the file is as it was before the call (given
\* that the restore rename succeeds).
C12_FailedSaveKeepsExistingFile ==
  [][SameProcess =>
       \A p \in Procs :
         /\ BackupRenameFailed(p) => file' = file
         /\ (WriteFailed(p) /\ backedUp) => file' = FileBeforeSave]_vars

\* a save of a changed registry over an existing file has returned an error,
\* and the file holds the registry of before
C12_Witness ==
  /\ Idle
  /\ lastSaveErr
  /\ resp.code = 500
  /\ file.kind = "json"
  /\ bak = NoFile
  /\ allProjects # Unmarshal(file.doc)

\* saveMetadata called by p returns an error in this step
SaveFailed(p) ==
  BackupRenameFailed(p) \/ (pc[p] = "s_restore" /\ pc'[p] # "s_restore")

\* C13: when persistence fails inside upsertBuild, deleteBuild or deleteApp,
\* the error reaches the caller and the in-memory registry keeps the
\* mutation: the step that takes the lock makes the change (the new build at
\* the head of its list, one build or one app fewer), also when the backup
\* rename fails in it, and no later step of the call, the failing return
\* included, changes the registry.
C13_FailedSaveKeepsMutation ==
  [][SameProcess =>
       \A p \in Procs :
         LET r == req[p]
         IN /\ SaveFailed(p) =>
                 /\ IF r.op = "upload" THEN pc'[p] = "u_resp" /\ err'[p]
                                       ELSE pc'[p] = "idle" /\ resp'.code = 500
                 /\ r.op = "upload" =>
                      Head(BuildsOf(allProjects', r.projectName, r.packageName))
                        = BuildInfoOf(r)
            /\ (pc[p] \in {"s_write", "s_restore"} /\ pc'[p] # pc[p]) =>
                 allProjects' = allProjects
            /\ (AtLock(p) /\ pc'[p] # pc[p] /\ r.op = "deleteBuild"
                  /\ (pc'[p] = "s_write" \/ resp'.code = 500)) =>
                 Len(AllBuilds(Apps')) < Len(AllBuilds(Apps))
            /\ (AtLock(p) /\ pc'[p] # pc[p] /\ r.op = "deleteApp"
                  /\ (pc'[p] = "s_write" \/ resp'.code = 500)) =>
                 Len(Apps') < Len(Apps)]_vars

\* a deleteBuild was answered 500 after its save failed: the file still holds
\* the build, the registry in memory no longer does
C13_Witness ==
  /\ Idle
  /\ resp.op = "deleteBuild"
  /\ resp.code = 500
  /\ lastSaveErr
  /\ file.kind = "json"
  /\ Len(AllBuilds(AllApps(Unmarshal(file.doc)))) > Len(AllBuilds(Apps))

\* C14: an upsert for a packageName that already has an AppEntry in the
\* target project overwrites appName with the incoming value and overwrites
\* iconPath only when the incoming icon path is non-empty: an upload whose
\* icon extraction failed leaves the stored iconPath as it was.
C14_UpsertRefreshesApp ==
  [][SameProcess =>
       \A p \in Procs :
         LET r   == req[p]
             old == AppsOf(allProjects, r.projectName, r.packageName)
             new == AppsOf(allProjects', r.projectName, r.packageName)
         IN (pc[p] = "u_lock" /\ pc'[p] # "u_lock" /\ old # << >>) =>
              /\ Len(new) = Len(old)
              /\ new[1].AppName = r.appName
              /\ new[1].IconPath = IF r.iconPath # NoIcon THEN r.iconPath
                                   ELSE old[1].IconPath]_vars

\* an upload without an icon has renamed an app that keeps its stored icon
C14_Witness ==
  \E p \in Procs :
    LET apps == AppsOf(allProjects, req[p].projectName, req[p].packageName)
    IN /\ pc[p] = "s_write"
       /\ req[p].op = "upload"
       /\ req[p].iconPath = NoIcon
       /\ req[p].appName = "App2"
       /\ apps # << >>
       /\ apps[1].AppName = "App2"
       /\ apps[1].IconPath # NoIcon
       /\ Len(apps[1].Builds) = 2

\* C15: deleteBuild reports its two not-found cases distinguishably: in every
\* reachable registry the answer to a request whose packageName matches no
\* AppEntry differs from the answer to a request whose AppEntry exists while
\* none of its builds has the fileName.
C15_NotFoundCasesDiffer ==
  \A k1, k2 \in Range(PackageNames) :
    \A fn1 \in FileNamesFor(k1), fn2 \in FileNamesFor(k2) :
      LET at2 == FindApp(allProjects, k2)
      IN (/\ FindApp(allProjects, k1) = <<0, 0>>
          /\ at2 # <<0, 0>>
          /\ fn2 \notin FileNamesOf(allProjects[at2[1]].Apps[at2[2]].Builds)) =>
           DeleteBuildOutcome(allProjects, k1, fn1, FALSE)
             # DeleteBuildOutcome(allProjects, k2, fn2, FALSE)

\* C16: in every reachable state no two BuildInfo records of the registry
\* have the same fileName, also after two uploads of the same package,
\* version and channel that compute their file name in the same clock second.
C16_FileNamesUnique ==
  LET builds == AllBuilds(Apps)
  IN \A i, j \in Indices(builds) :
       builds[i].FileName = builds[j].FileName => i = j

\* an upload returns in this step after its temporary file was saved: from
\* updateMetadata's return, or from an early return of the staging
UploadReturns(p) == pc[p] = "u_resp" /\ pc'[p] = "idle"

UploadAborts ==
  /\ nReqs' = nReqs + 1
  /\ pc' = pc
  /\ resp'.op = "upload"
  /\ resp'.body # "save file error"

\* the file-system calls that fail in an early return besides its os.Remove
AbortFaults == IF resp'.body = "parse APK failed" THEN 0 ELSE 1

EmptiedBy(p) ==
  LET pi == FirstIndex(allProjects, LAMBDA q :
              \E j \in Indices(q.Apps) :
                q.Apps[j].PackageName = req[p].packageName)
  IN IF pi # 0 /\ \A j \in Indices(allProjects[pi].Apps) :
                     allProjects[pi].Apps[j].PackageName = req[p].packageName
     THEN {allProjects[pi].ProjectName} ELSE {}

\* C18: after a deleteApp(packageName) that reports success no AppEntry with
\* that packageName remains anywhere in the registry, and if the removed
\* AppEntry was the last app of its Project that Project is removed too.
C18_DeleteAppRemovesAll ==
  [][SameProcess =>
       \A p \in Procs :
         /\ (req[p].op = "deleteApp" /\ pc[p] = "s_remove" /\ pc'[p] = "idle") =>
              /\ resp'.code = 200
              /\ FindApp(allProjects', req[p].packageName) = <<0, 0>>
         /\ (pc[p] = "da_lock" /\ pc'[p] = "s_write") =>
              \A i \in Indices(allProjects') :
                allProjects'[i].ProjectName \notin EmptiedBy(p)]_vars

\* saveMetadata called by p returns from its last statement in this step
SaveReturns(p) ==
  /\ pc[p] \in {"s_restore", "s_remove"}
  /\ pc'[p] \notin {"s_restore", "s_remove"}

\* C19: after a completed save, successful or failed, no backup file exists,
\* given that the restore rename and the backup delete succeed: a save that
\* returns from its last statement with no failing file-system call leaves
\* no backup, a save that returns the error of its backup rename leaves the
\* backup path as it was, and a backup comes into existence only by the
\* rename at the start of a save that goes on to its write.
C19_BackupOnlyDuringSave ==
  [][SameProcess =>
       /\ \A p \in Procs :
            /\ (SaveReturns(p) /\ nFaults' = nFaults) => bak' = NoFile
            /\ BackupRenameFailed(p) => bak' = bak
       /\ (bak = NoFile /\ bak' # NoFile) =>
            \E p \in Procs : AtLock(p) /\ pc'[p] = "s_write" /\ backedUp']_vars

\* a second save has replaced an existing file and removed its backup
C19_Witness ==
  /\ Idle
  /\ nFaults = 0
  /\ nCrashes = 0
  /\ ~lastSaveErr
  /\ bak = NoFile
  /\ file.kind = "json"
  /\ Len(AllBuilds(Apps)) = 2

\* C20: under fair scheduling, with every file operation returning, every
\* request that waits for the registry lock eventually gets past Lock and
\* every holder eventually releases the lock, on the success, not-found and
\* persistence-error paths alike (a request ends too when the process is
\* killed); saveMetadata never waits for the lock its caller holds.
C20_LockLiveness ==
  \A p \in Procs :
    /\ AtLock(p) ~> ~AtLock(p)
    /\ (mutex = p) ~> (mutex # p)

\* a request waits for the lock while the holder is on the error path of
\* its save
C20_Witness ==
  \E p, q \in Procs :
    /\ p # q
    /\ mutex = p
    /\ pc[p] = "s_restore"
    /\ AtLock(q)

\* C21: whenever no request is in flight, every BuildInfo of the in-memory
\* registry has its artifact file under uploads/, also after uploads whose
\* updateMetadata returned an error and after uploads that computed the file
\* name of an existing build.
C21_ArtifactsPresent ==
  (Running /\ Idle) => FileNamesOf(AllBuilds(Apps)) \subseteq uploads

\* C22: for every interleaving of an upload of a package, whose icon is
\* written before the lock is taken, with a deleteApp of that package: once
\* both requests have finished, every AppEntry of the registry with a
\* non-empty iconPath has its icon file under static/icons/.
C22_IconPresent ==
  (Running /\ Idle) =>
    \A i \in Indices(Apps) :
      Apps[i].IconPath # NoIcon => Apps[i].PackageName \in icons

\* the sequence s without its element at index i
RemoveAt(s, i) == SubSeq(s, 1, i - 1) \o SubSeq(s, i + 1, Len(s))

\* updateMetadata called by p with the registry old leaves new: the target
\* Project and AppEntry are the found ones or new ones at the end of their
\* sequences, everything else is where and as it was
UpsertFrame(p, old, new) ==
  LET r       == req[p]
      pi      == FirstIndex(old, LAMBDA q : q.ProjectName = r.projectName)
      pj      == IF pi = 0 THEN Len(old) + 1 ELSE pi
      oldApps == IF pi = 0 THEN << >> ELSE old[pi].Apps
      ai      == FirstIndex(oldApps, LAMBDA a : a.PackageName = r.packageName)
      aj      == IF ai = 0 THEN Len(oldApps) + 1 ELSE ai
  IN /\ Len(new) = (IF pi = 0 THEN pj ELSE Len(old))
     /\ \A i \in Indices(old) : i # pj => new[i] = old[i]
     /\ new[pj].ProjectName = r.projectName
     /\ Len(new[pj].Apps) = (IF ai = 0 THEN aj ELSE Len(oldApps))
     /\ \A j \in Indices(oldApps) : j # aj => new[pj].Apps[j] = oldApps[j]
     /\ new[pj].Apps[aj].PackageName = r.packageName
     /\ new[pj].Apps[aj].Builds
          = <<BuildInfoOf(r)>> \o (IF ai = 0 THEN << >> ELSE oldApps[ai].Builds)

\* handleDeleteBuild called by p: only the first AppEntry with the package
\* name changes, it loses the builds with the file name and keeps the others
\* in order, or leaves its project when none is kept
DeleteBuildFrame(p, old, new) ==
  LET at == FindApp(old, req[p].packageName)
  IN IF at = <<0, 0>> THEN new = old
     ELSE
       LET apps == old[at[1]].Apps
           kept == SelectSeq(apps[at[2]].Builds,
                             LAMBDA b : b.FileName # req[p].fileName)
       IN /\ Len(new) = Len(old)
          /\ \A i \in Indices(old) : i # at[1] => new[i] = old[i]
          /\ new[at[1]].ProjectName = old[at[1]].ProjectName
          /\ \/ new[at[1]].Apps = [apps EXCEPT ![at[2]].Builds = kept]
             \/ kept = << >> /\ new[at[1]].Apps = RemoveAt(apps, at[2])

\* handleDeleteApp called by p: only the first AppEntry with the package name
\* leaves, and its project with it when it was the only app
DeleteAppFrame(p, old, new) ==
  LET at == FindApp(old, req[p].packageName)
  IN IF at = <<0, 0>> THEN new = old
     ELSE LET rest == RemoveAt(old[at[1]].Apps, at[2])
          IN IF rest = << >> THEN new = RemoveAt(old, at[1])
             ELSE new = [old EXCEPT ![at[1]].Apps = rest]

\* C23: each mutation touches only its target: the upsert leaves every other
\* Project and AppEntry unchanged and puts a new Project or AppEntry at the
\* end of its sequence; deleteBuild and deleteApp leave the non-target
\* projects, apps and builds unchanged; the surviving projects, apps and
\* builds keep their relative order; and the rest of each call leaves the
\* registry as the locked step made it.
C23_MutationsTouchTarget ==
  [][SameProcess =>
       \A p \in Procs :
         /\ (pc[p] = "u_lock" /\ pc'[p] # "u_lock") =>
              UpsertFrame(p, allProjects, allProjects')
         /\ (pc[p] = "db_lock" /\ pc'[p] # "db_lock") =>
              DeleteBuildFrame(p, allProjects, allProjects')
         /\ (pc[p] = "da_lock" /\ pc'[p] # "da_lock") =>
              DeleteAppFrame(p, allProjects, allProjects')
         /\ (InCriticalSection(p) /\ pc'[p] # pc[p]) =>
              allProjects' = allProjects]_vars
====
